---- MODULE Spec2Model ----
(***************************************************************************)
(* Model of update_prices.py: percentage parsing, ceiling-to-cent price    *)
(* adjustment, the per-document update, file discovery, interactive        *)
(* selection and the command-line driver.                                  *)
(*                                                                         *)
(* Python floats are IEEE-754 binary64.  They are modelled exactly: a      *)
(* finite float is sign * m * 2^e with m a 53-bit natural kept as a        *)
(* little-endian sequence of 15-bit limbs, and every arithmetic operation  *)
(* is the exact result rounded to nearest, ties to even.  Exponents stay   *)
(* far from the binary64 limits for the inputs used, so overflow to        *)
(* infinity and subnormals do not arise from arithmetic.                   *)
(***************************************************************************)
EXTENDS Integers, Sequences, FiniteSets, TLC

(***************************************************************************)
(* Arbitrary-precision naturals (little-endian limbs, no high zero limb).  *)
(***************************************************************************)
LimbBits == 15

Base == 32768

MantBits == 53

RECURSIVE Pow2(_)
Pow2(n) == IF n = 0 THEN 1 ELSE 2 * Pow2(n - 1)

RECURSIVE Pow10(_)
Pow10(n) == IF n = 0 THEN 1 ELSE 10 * Pow10(n - 1)

RECURSIVE BNorm(_)
BNorm(a) ==
  IF a = <<>> THEN a
  ELSE IF a[Len(a)] = 0 THEN BNorm(SubSeq(a, 1, Len(a) - 1)) ELSE a

RECURSIVE BFromInt(_)
BFromInt(n) == IF n = 0 THEN <<>> ELSE <<n % Base>> \o BFromInt(n \div Base)

RECURSIVE BToInt(_)
BToInt(a) == IF a = <<>> THEN 0 ELSE a[1] + Base * BToInt(Tail(a))

RECURSIVE BAddC(_, _, _)
BAddC(a, b, c) ==
  IF a = <<>> /\ b = <<>> THEN (IF c = 0 THEN <<>> ELSE <<c>>)
  ELSE LET x == IF a = <<>> THEN 0 ELSE a[1]
           y == IF b = <<>> THEN 0 ELSE b[1]
           s == x + y + c
       IN  <<s % Base>> \o BAddC(IF a = <<>> THEN a ELSE Tail(a),
                                 IF b = <<>> THEN b ELSE Tail(b),
                                 s \div Base)

BAdd(a, b) == BAddC(a, b, 0)

\* a - b for a >= b
RECURSIVE BSubB(_, _, _)
BSubB(a, b, c) ==
  IF a = <<>> THEN <<>>
  ELSE LET y == IF b = <<>> THEN 0 ELSE b[1]
           d == a[1] - y - c
       IN  <<IF d < 0 THEN d + Base ELSE d>>
             \o BSubB(Tail(a), IF b = <<>> THEN b ELSE Tail(b),
                      IF d < 0 THEN 1 ELSE 0)

BSub(a, b) == BNorm(BSubB(a, b, 0))

RECURSIVE BCmpFrom(_, _, _)
BCmpFrom(a, b, i) ==
  IF i = 0 THEN 0
  ELSE IF a[i] > b[i] THEN 1
  ELSE IF a[i] < b[i] THEN -1
  ELSE BCmpFrom(a, b, i - 1)

\* -1, 0 or 1 as a < b, a = b, a > b
BCmp(a, b) ==
  IF Len(a) > Len(b) THEN 1
  ELSE IF Len(a) < Len(b) THEN -1
  ELSE BCmpFrom(a, b, Len(a))

\* a * k for 0 <= k < Base
RECURSIVE BMulSmallC(_, _, _)
BMulSmallC(a, k, c) ==
  IF a = <<>> THEN (IF c = 0 THEN <<>> ELSE <<c>>)
  ELSE LET p == a[1] * k + c
       IN  <<p % Base>> \o BMulSmallC(Tail(a), k, p \div Base)

BMulSmall(a, k) == BNorm(BMulSmallC(a, k, 0))

RECURSIVE BMul(_, _)
BMul(a, b) ==
  IF b = <<>> \/ a = <<>> THEN <<>>
  ELSE BNorm(BAdd(BMulSmall(a, b[1]), <<0>> \o BMul(a, Tail(b))))

\* quotient and remainder of a by k, 0 < k <= Base
RECURSIVE BDivS(_, _, _, _)
BDivS(a, k, i, r) ==
  IF i = 0 THEN [q |-> <<>>, r |-> r]
  ELSE LET cur  == r * Base + a[i]
           rest == BDivS(a, k, i - 1, cur % k)
       IN  [q |-> rest.q \o <<cur \div k>>, r |-> rest.r]

BDivSmall(a, k) ==
  LET d == BDivS(a, k, Len(a), 0) IN [q |-> BNorm(d.q), r |-> d.r]

RECURSIVE Zeros(_)
Zeros(n) == IF n = 0 THEN <<>> ELSE <<0>> \o Zeros(n - 1)

\* a * 2^n
BShl(a, n) ==
  IF a = <<>> THEN a
  ELSE BMulSmall(Zeros(n \div LimbBits) \o a, Pow2(n % LimbBits))

\* floor(a / 2^n)
BShr(a, n) ==
  LET w == n \div LimbBits
  IN  IF w >= Len(a) THEN <<>>
      ELSE BDivSmall(SubSeq(a, w + 1, Len(a)), Pow2(n % LimbBits)).q

RECURSIVE BitLenSmall(_)
BitLenSmall(n) == IF n = 0 THEN 0 ELSE 1 + BitLenSmall(n \div 2)

BBitLen(a) ==
  IF a = <<>> THEN 0 ELSE LimbBits * (Len(a) - 1) + BitLenSmall(a[Len(a)])

BOdd(a) == a # <<>> /\ a[1] % 2 = 1

(***************************************************************************)
(* binary64 values and arithmetic.                                         *)
(***************************************************************************)
FZero == [k |-> "fin", s |-> 0, m |-> <<>>, e |-> 0]

FNaN == [k |-> "nan", s |-> 0, m |-> <<>>, e |-> 0]

FInf(s) == [k |-> "inf", s |-> s, m |-> <<>>, e |-> 0]

\* (-1)^s * N * 2^e (plus a positive amount below one unit of N when
\* sticky), rounded to 53 significant bits, nearest, ties to even.
\* Callers pass sticky only with N of at least 55 bits.
RoundNE(s, N, e, sticky) ==
  LET bl == BBitLen(N)
  IN  IF N = <<>> THEN FZero
      ELSE IF bl <= MantBits
        THEN [k |-> "fin", s |-> s, m |-> BShl(N, MantBits - bl),
              e |-> e - (MantBits - bl)]
      ELSE LET d    == bl - MantBits
               q    == BShr(N, d)
               r    == BSub(N, BShl(q, d))
               half == BShl(<<1>>, d - 1)
               c    == BCmp(r, half)
               up   == c = 1 \/ (c = 0 /\ (sticky \/ BOdd(q)))
               q2   == IF up THEN BAdd(q, <<1>>) ELSE q
           IN  IF BBitLen(q2) > MantBits
                 THEN [k |-> "fin", s |-> s, m |-> BShr(q2, 1), e |-> e + d + 1]
                 ELSE [k |-> "fin", s |-> s, m |-> q2, e |-> e + d]

GuardBits == 70

\* (-1)^s * (n / d) * 2^e correctly rounded, n a natural, 0 < d < Base
FRatio(s, n, d, e) ==
  LET qr == BDivSmall(BShl(n, GuardBits), d)
  IN  RoundNE(s, qr.q, e - GuardBits, qr.r # 0)

\* float(n) for a Python int n
FFromInt(n) ==
  IF n < 0 THEN RoundNE(1, BFromInt(0 - n), 0, FALSE)
  ELSE RoundNE(0, BFromInt(n), 0, FALSE)

\* x * y
FMul(x, y) ==
  LET s == (x.s + y.s) % 2
  IN  IF x.k = "nan" \/ y.k = "nan" THEN FNaN
      ELSE IF x.k = "inf" \/ y.k = "inf"
        THEN (IF (x.k = "fin" /\ x.m = <<>>) \/ (y.k = "fin" /\ y.m = <<>>)
                THEN FNaN ELSE FInf(s))
      ELSE RoundNE(s, BMul(x.m, y.m), x.e + y.e, FALSE)

\* x / d for a float x and the exactly representable divisor float(d)
FDivSmall(x, d) ==
  IF x.k # "fin" THEN x ELSE FRatio(x.s, x.m, d, x.e)

\* x + y
FAdd(x, y) ==
  IF x.k = "nan" \/ y.k = "nan" THEN FNaN
  ELSE IF x.k = "inf"
    THEN (IF y.k = "inf" /\ y.s # x.s THEN FNaN ELSE x)
  ELSE IF y.k = "inf" THEN y
  ELSE IF x.m = <<>> THEN y
  ELSE IF y.m = <<>> THEN x
  ELSE LET emin == IF x.e < y.e THEN x.e ELSE y.e
           X    == BShl(x.m, x.e - emin)
           Y    == BShl(y.m, y.e - emin)
           c    == BCmp(X, Y)
       IN  IF x.s = y.s THEN RoundNE(x.s, BAdd(X, Y), emin, FALSE)
           ELSE IF c = 0 THEN FZero
           ELSE IF c = 1 THEN RoundNE(x.s, BSub(X, Y), emin, FALSE)
           ELSE RoundNE(y.s, BSub(Y, X), emin, FALSE)

\* math.ceil(x) for finite x, as a Python int
FCeil(x) ==
  IF x.m = <<>> THEN 0
  ELSE IF x.e >= 0
    THEN (IF x.s = 0 THEN BToInt(BShl(x.m, x.e)) ELSE 0 - BToInt(BShl(x.m, x.e)))
  ELSE LET q     == BShr(x.m, 0 - x.e)
           exact == BShl(q, 0 - x.e) = x.m
       IN  IF x.s = 0 THEN BToInt(q) + (IF exact THEN 0 ELSE 1)
           ELSE 0 - BToInt(q)

(***************************************************************************)
(* Strings are sequences of one-character strings.                         *)
(***************************************************************************)
Digits == {"0", "1", "2", "3", "4", "5", "6", "7", "8", "9"}

DigitVal(c) ==
  CASE c = "0" -> 0 [] c = "1" -> 1 [] c = "2" -> 2 [] c = "3" -> 3
    [] c = "4" -> 4 [] c = "5" -> 5 [] c = "6" -> 6 [] c = "7" -> 7
    [] c = "8" -> 8 [] c = "9" -> 9

\* str.lower() on the letters the model's alphabets contain
LowerChar(c) ==
  CASE c = "A" -> "a" [] c = "L" -> "l" [] c = "N" -> "n" [] c = "Y" -> "y"
    [] OTHER -> c

Lower(s) == [i \in 1..Len(s) |-> LowerChar(s[i])]

IsSpace(c) == c = " "

RECURSIVE LStrip(_)
LStrip(s) == IF s # <<>> /\ IsSpace(s[1]) THEN LStrip(Tail(s)) ELSE s

RECURSIVE RStrip(_)
RStrip(s) ==
  IF s # <<>> /\ IsSpace(s[Len(s)]) THEN RStrip(SubSeq(s, 1, Len(s) - 1)) ELSE s

\* str.strip()
Strip(s) == RStrip(LStrip(s))

\* str.count(c)
Count(s, c) == Cardinality({i \in 1..Len(s) : s[i] = c})

\* str.endswith(c)
EndsWith(s, c) == s # <<>> /\ s[Len(s)] = c

RECURSIVE DigitsToInt(_)
DigitsToInt(s) ==
  IF s = <<>> THEN 0
  ELSE 10 * DigitsToInt(SubSeq(s, 1, Len(s) - 1)) + DigitVal(s[Len(s)])

\* int(x) for a token: surrounding whitespace, optional sign, digits.
\* (Underscore digit separators are outside the model's alphabets.)
PyInt(x) ==
  LET t    == Strip(x)
      neg  == t # <<>> /\ t[1] = "-"
      body == IF t # <<>> /\ t[1] \in {"-", "+"} THEN Tail(t) ELSE t
  IN  IF body = <<>> \/ \E i \in 1..Len(body) : body[i] \notin Digits
        THEN [ok |-> FALSE, val |-> 0]
        ELSE [ok |-> TRUE,
              val |-> IF neg THEN 0 - DigitsToInt(body) ELSE DigitsToInt(body)]

\* the decimal literal in x: surrounding whitespace, optional sign, digits
\* with at most one '.', at least one digit; its value is
\* (-1)^s * n / 10^d
PyDecimal(x) ==
  LET t      == Strip(x)
      sgn    == IF t # <<>> /\ t[1] = "-" THEN 1 ELSE 0
      body   == IF t # <<>> /\ t[1] \in {"-", "+"} THEN Tail(t) ELSE t
      dots   == {i \in 1..Len(body) : body[i] = "."}
      dot    == IF dots = {} THEN Len(body) ELSE CHOOSE i \in dots : TRUE
      digs   == SelectSeq(body, LAMBDA c : c \in Digits)
  IN  IF digs = <<>> \/ Cardinality(dots) > 1
         \/ \E i \in 1..Len(body) : body[i] \notin Digits \cup {"."}
        THEN [ok |-> FALSE, s |-> 0, n |-> 0, d |-> 0]
        ELSE [ok |-> TRUE, s |-> sgn, n |-> DigitsToInt(digs),
              d |-> Len(body) - dot]

\* float(x) for a string: surrounding whitespace, optional sign, then
\* nan / inf / infinity in any case, or a decimal literal, which converts
\* to the nearest binary64.  (Exponents and underscore separators are
\* outside the model's alphabets.)
PyFloat(x) ==
  LET t    == Strip(x)
      sgn  == IF t # <<>> /\ t[1] = "-" THEN 1 ELSE 0
      body == IF t # <<>> /\ t[1] \in {"-", "+"} THEN Tail(t) ELSE t
      low  == Lower(body)
      dec  == PyDecimal(x)
  IN  IF low = <<"n", "a", "n">> THEN [ok |-> TRUE, val |-> FNaN]
      ELSE IF low = <<"i", "n", "f">>
              \/ low = <<"i", "n", "f", "i", "n", "i", "t", "y">>
        THEN [ok |-> TRUE, val |-> FInf(sgn)]
      ELSE IF ~dec.ok THEN [ok |-> FALSE, val |-> FZero]
      ELSE [ok |-> TRUE,
            val |-> FRatio(dec.s, BFromInt(dec.n), Pow10(dec.d), 0)]

(***************************************************************************)
(* parse_percentage                                                        *)
(***************************************************************************)
ParseError == [ok |-> FALSE, val |-> FZero]

\* lines 52-58: a trailing '%' is removed when it is the only '%'
StripPercent(clean) ==
  IF EndsWith(clean, "%")
    THEN IF Count(clean, "%") # 1
           THEN [ok |-> FALSE, str |-> clean]
           ELSE [ok |-> TRUE, str |-> SubSeq(clean, 1, Len(clean) - 1)]
    ELSE [ok |-> TRUE, str |-> clean]

parse_percentage(percentage_str) ==
  LET sp == StripPercent(Strip(percentage_str))
      pv == PyFloat(sp.str)
  IN  IF ~sp.ok \/ ~pv.ok THEN ParseError
      ELSE [ok |-> TRUE, val |-> FAdd(FFromInt(1), FDivSmall(pv.val, 100))]

(***************************************************************************)
(* JSON values.  In a file a value is a literal [t, n, d]: an int n, a     *)
(* float n / 10^d, a bool (n is 0 or 1), or a str / null / nested value    *)
(* identified by n.  json.load turns it into a Python value [t, i, f].     *)
(***************************************************************************)
LitInt(n) == [t |-> "int", n |-> n, d |-> 0]

LitFloat(n, d) == [t |-> "float", n |-> n, d |-> d]

LitBool(b) == [t |-> "bool", n |-> IF b THEN 1 ELSE 0, d |-> 0]

LitStr(n) == [t |-> "str", n |-> n, d |-> 0]

LitNull == [t |-> "null", n |-> 0, d |-> 0]

LitNested(n) == [t |-> "nested", n |-> n, d |-> 0]

PyFloatValue(f) == [t |-> "float", i |-> 0, f |-> f]

\* json.load on one value
JsonLoadValue(lit) ==
  IF lit.t = "float"
    THEN PyFloatValue(FRatio(0, BFromInt(lit.n), Pow10(lit.d), 0))
    ELSE [t |-> lit.t, i |-> lit.n, f |-> FZero]

JsonLoadRow(row) == [k \in DOMAIN row |-> JsonLoadValue(row[k])]

\* json.load on a document
JsonLoad(doc) ==
  [doc EXCEPT !.rows = [r \in 1..Len(doc.rows) |-> JsonLoadRow(doc.rows[r])]]

\* line 98: isinstance(row[tier], (int, float)); bool is a subclass of int
IsNumber(v) == v.t \in {"int", "float", "bool"}

\* the operand of old_price * percentage_multiplier as a float
AsFloat(v) == IF v.t = "float" THEN v.f ELSE FFromInt(v.i)

\* lines 99-104: math.ceil(old_price * multiplier * 100) / 100;
\* math.ceil raises on nan and on infinity
AdjustPrice(old_price, percentage_multiplier) ==
  LET new_price == FMul(AsFloat(old_price), percentage_multiplier)
      scaled    == FMul(new_price, FFromInt(100))
      cents     == FCeil(scaled)
  IN  IF scaled.k # "fin" THEN [ok |-> FALSE, cents |-> 0, val |-> FZero]
      ELSE [ok |-> TRUE, cents |-> cents,
            val |-> FRatio(IF cents < 0 THEN 1 ELSE 0,
                           BFromInt(IF cents < 0 THEN 0 - cents ELSE cents),
                           100, 0)]

(***************************************************************************)
(* File discovery: get_matching_files                                      *)
(***************************************************************************)
\* code points of the characters file names are made of
CharCode(c) ==
  CASE c = "-" -> 45 [] c = "." -> 46 [] c = "a" -> 97 [] c = "b" -> 98
    [] c = "c" -> 99 [] c = "d" -> 100 [] c = "j" -> 106 [] c = "n" -> 110
    [] c = "o" -> 111 [] c = "s" -> 115 [] c = "t" -> 116 [] c = "x" -> 120
    [] c = "z" -> 122

\* a < b for Python strings
RECURSIVE StrLess(_, _)
StrLess(a, b) ==
  IF b = <<>> THEN FALSE
  ELSE IF a = <<>> THEN TRUE
  ELSE IF CharCode(a[1]) < CharCode(b[1]) THEN TRUE
  ELSE IF CharCode(a[1]) > CharCode(b[1]) THEN FALSE
  ELSE StrLess(Tail(a), Tail(b))

\* sorted() of a list without repeated elements, given as its set
RECURSIVE Sorted(_)
Sorted(S) ==
  IF S = {} THEN <<>>
  ELSE LET least == CHOOSE x \in S : \A y \in S \ {x} : StrLess(x, y)
       IN  <<least>> \o Sorted(S \ {least})

\* keyword in file
IsSubstring(keyword, file) ==
  \E i \in 0..(Len(file) - Len(keyword)) :
    SubSeq(file, i + 1, i + Len(keyword)) = keyword

JsonSuffix == <<".", "j", "s", "o", "n">>

\* glob.glob('*.json'): the directory entries whose name ends in .json
\* (hidden files, which the pattern skips, are not among the names used)
GlobJson(entries) ==
  {f \in entries : Len(f) >= Len(JsonSuffix)
                   /\ SubSeq(f, Len(f) - Len(JsonSuffix) + 1, Len(f)) = JsonSuffix}

\* lines 113-130; keywords is [given, v], given = FALSE standing for None
get_matching_files(entries, keywords) ==
  LET json_files == GlobJson(entries)
  IN  IF ~keywords.given
        THEN [files |-> Sorted(json_files), warned |-> TRUE]
        ELSE [files |-> Sorted({file \in json_files :
                                  \E i \in 1..Len(keywords.v) :
                                    IsSubstring(keywords.v[i], file)}),
              warned |-> FALSE]

(***************************************************************************)
(* interactive_file_selection: one pass of the while loop on one input line *)
(***************************************************************************)
\* str.split(sep)
RECURSIVE Split(_, _)
Split(s, sep) ==
  LET at == {i \in 1..Len(s) : s[i] = sep}
  IN  IF at = {} THEN <<s>>
      ELSE LET i == CHOOSE j \in at : \A k \in at : j <= k
           IN  <<SubSeq(s, 1, i - 1)>> \o Split(SubSeq(s, i + 1, Len(s)), sep)

WordAll == <<"a", "l", "l">>

QuitWords == {<<"n", "o", "n", "e">>, <<"q", "u", "i", "t">>, <<"e", "x", "i", "t">>}

\* the for loop returning what it collected when it meets an index out of range
RECURSIVE PickIndices_Partial(_, _, _)
PickIndices_Partial(indices, matching, selected) ==
  IF indices = <<>> THEN [done |-> TRUE, files |-> selected]
  ELSE IF 1 <= Head(indices) /\ Head(indices) <= Len(matching)
    THEN PickIndices_Partial(Tail(indices), matching,
                             Append(selected, matching[Head(indices)]))
  ELSE [done |-> TRUE, files |-> selected]

\* lines 159-166: append while in range; the first index out of range breaks
\* out of the for loop, so its else branch (the return) is not taken
RECURSIVE PickIndices(_, _, _)
PickIndices(indices, matching, selected) ==
  IF indices = <<>> THEN [done |-> TRUE, files |-> selected]
  ELSE IF 1 <= Head(indices) /\ Head(indices) <= Len(matching)
    THEN PickIndices(Tail(indices), matching,
                     Append(selected, matching[Head(indices)]))
  ELSE [done |-> FALSE, files |-> <<>>]

\* lines 146-169: done = the function returns files; otherwise it prompts again
SelectionPass(line, matching) ==
  LET selection == Lower(Strip(line))
      tokens    == Split(selection, ",")
      parsed    == [i \in 1..Len(tokens) |-> PyInt(tokens[i])]
  IN  IF selection \in QuitWords THEN [done |-> TRUE, files |-> <<>>]
      ELSE IF selection = WordAll THEN [done |-> TRUE, files |-> matching]
      ELSE IF \E i \in 1..Len(parsed) : ~parsed[i].ok
        THEN [done |-> FALSE, files |-> <<>>]
      ELSE PickIndices([i \in 1..Len(parsed) |-> parsed[i].val], matching, <<>>)

(***************************************************************************)
(* State.                                                                  *)
(***************************************************************************)
VARIABLES
  pc,               \* position in the script
  percent,          \* args.percent
  multiplier,       \* percentage_multiplier once parse_percentage returned
  args_files,       \* args.files; given = FALSE is None
  args_all,         \* args.all
  args_list,        \* args.list
  args_keywords,    \* args.keywords; given = FALSE is None
  entries,          \* names in the working directory
  matching_files,   \* line 205 / 208
  globbed,          \* get_matching_files has run
  warned,           \* the "ALL JSON files" warning was printed
  files_to_process, \* lines 220-235
  missing,          \* paths reported "not found" (line 227)
  last_input,       \* the line the last input() returned
  select_reads,     \* input() calls made by interactive_file_selection
  confirm_reads,    \* input() calls made by the confirmation at line 247
  attempted,        \* file names given to update_pricing_file, in order
  outcomes,         \* per attempt, "ok" or "raised"
  applied,          \* per path, how many times its prices were rewritten
  exit_code,        \* -1 while running
  ending,           \* why the script ended
  file,             \* a pricing file's content as JSON literals
  data,             \* the loaded document, updated in place
  row_i,            \* position of "for row in data['rows']" (line 94)
  tier_i,           \* position of "for tier in pricable_tiers" (line 97)
  fstatus           \* "unread", "updating", "written", or "failed" (raised)

vars ==
  <<pc, percent, multiplier, args_files, args_all, args_list, args_keywords,
    entries, matching_files, globbed, warned, files_to_process, missing,
    last_input, select_reads, confirm_reads, attempted, outcomes, applied,
    exit_code, ending, file, data, row_i, tier_i, fstatus>>

argVars == <<percent, args_files, args_all, args_list, args_keywords, entries>>

docVars == <<file, data, row_i, tier_i, fstatus>>

(***************************************************************************)
(* Bounds and input sets.                                                  *)
(***************************************************************************)
MaxPercentLen == 3

MaxEntries == 3

MaxLineLen == 2

MaxReads == 2

MaxRows == 2

RECURSIVE SeqsUpTo(_, _)
SeqsUpTo(S, n) ==
  IF n = 0 THEN {<<>>}
  ELSE LET shorter == SeqsUpTo(S, n - 1)
       IN  shorter \cup {Append(q, c) : q \in shorter, c \in S}

None == [given |-> FALSE, v |-> <<>>]

Given(v) == [given |-> TRUE, v |-> v]

PercentChars == {"1", "5", ".", "-", "%", " ", "n", "a"}

PercentStrings == SeqsUpTo(PercentChars, MaxPercentLen)

FileA == <<"a", "d", ".", "j", "s", "o", "n">>

FileB == <<"b", "c", ".", "j", "s", "o", "n">>

FileC == <<"c", "d", "t", ".", "j", "s", "o", "n">>

FileTxt == <<"d", ".", "t", "x", "t">>

FileZ == <<"z", ".", "j", "s", "o", "n">>

DirEntries == <<FileB, FileTxt, FileA, FileC>>

EntrySets ==
  SUBSET {DirEntries[i] : i \in 1..(IF MaxEntries < 4 THEN MaxEntries ELSE 4)}

Paths == {FileA, FileB, FileC, FileTxt, FileZ}

FilesArgs ==
  {None, Given(<<>>), Given(<<FileA>>), Given(<<FileZ>>), Given(<<FileA, FileB>>),
   Given(<<FileA, FileA>>), Given(<<FileB, FileZ, FileA>>), Given(<<FileTxt, FileB>>)}

KeywordArgs ==
  {None, Given(<<>>), Given(<<<<"d">>>>), Given(<<<<"x">>>>),
   Given(<<<<"d">>, <<"c">>>>), Given(<<<<"c", "d">>, <<"j", "s">>>>)}

MainPercents == {<<"6">>, <<"6", "%", "%">>}

SelectLines ==
  SeqsUpTo({"1", "2", ","}, MaxLineLen)
    \cup {WordAll, <<"A", "L", "L">>, <<" ", "a", "l", "l", " ">>,
          <<"a", "l", "l", ",", "1">>, <<"x">>, <<"1", ",", "x">>,
          <<" ", "1", " ", ",", " ", "2", " ">>, <<"1", " ", "2">>,
          <<"-", "1">>, <<"+", "1">>, <<"0">>, <<"1", ",", "0">>,
          <<"1", ",", "3">>, <<"3", ",", "1">>, <<"1", ".", "0">>,
          <<"1", ",", "2">>, <<"2", ",", "1">>, <<"1", ",", "1">>,
          <<"2", ",", "2">>, <<"1", ",", "2", ",", "1">>, <<"1", ",">>}
    \cup QuitWords

ConfirmLines ==
  {<<"y">>, <<"y", "e", "s">>, <<"Y">>, <<" ", "y">>, <<"n">>, <<>>, <<"y", "y">>}

Unset == [set |-> FALSE, ok |-> FALSE, val |-> FZero]

EmptyDoc ==
  [has_pricable |-> FALSE, pricable |-> <<>>, has_rows |-> FALSE,
   rows |-> <<>>, title |-> LitNull]

MainInit ==
  /\ pc = "parse"
  /\ multiplier = Unset
  /\ matching_files = <<>>
  /\ globbed = FALSE
  /\ warned = FALSE
  /\ files_to_process = <<>>
  /\ missing = <<>>
  /\ last_input = <<>>
  /\ select_reads = 0
  /\ confirm_reads = 0
  /\ attempted = <<>>
  /\ outcomes = <<>>
  /\ applied = [p \in Paths |-> 0]
  /\ exit_code = -1
  /\ ending = "running"
  /\ file = EmptyDoc
  /\ data = EmptyDoc
  /\ row_i = 0
  /\ tier_i = 0
  /\ fstatus = "unread"

\* the script started with some command line in some directory
Init ==
  /\ percent \in MainPercents
  /\ args_files \in FilesArgs
  /\ args_all \in BOOLEAN
  /\ args_list \in BOOLEAN
  /\ args_keywords \in KeywordArgs
  /\ entries \in EntrySets
  /\ MainInit

(***************************************************************************)
(* The script (lines 171-265).                                             *)
(***************************************************************************)
mainVars ==
  <<matching_files, globbed, warned, files_to_process, missing, last_input,
    select_reads, confirm_reads, attempted, outcomes, applied>>

Exit(code, why) ==
  /\ pc' = "done"
  /\ exit_code' = code
  /\ ending' = why

\* lines 195-200 without the sys.exit(1) of the except branch
ParsePercent_NoExit ==
  /\ pc = "parse"
  /\ LET r == parse_percentage(percent)
     IN  IF r.ok
           THEN multiplier' = [set |-> TRUE, ok |-> TRUE, val |-> r.val]
           ELSE multiplier' = multiplier
  /\ pc' = "discover"
  /\ UNCHANGED <<argVars, docVars, mainVars, exit_code, ending>>

\* lines 195-200
ParsePercent ==
  /\ pc = "parse"
  /\ LET r == parse_percentage(percent)
     IN  IF r.ok
           THEN /\ multiplier' = [set |-> TRUE, ok |-> TRUE, val |-> r.val]
                /\ pc' = "discover"
                /\ UNCHANGED <<exit_code, ending>>
           ELSE /\ multiplier' = multiplier
                /\ Exit(1, "bad_percent")
  /\ UNCHANGED <<argVars, docVars, mainVars>>

\* args.files is truthy: given and not empty
FilesTruthy == args_files.given /\ args_files.v # <<>>

\* lines 203-208
Discover ==
  /\ pc = "discover"
  /\ IF FilesTruthy
       THEN /\ matching_files' = <<>>
            /\ UNCHANGED <<globbed, warned>>
       ELSE LET r == get_matching_files(entries, args_keywords)
            IN  /\ matching_files' = r.files
                /\ globbed' = TRUE
                /\ warned' = r.warned
  /\ pc' = "resolve"
  /\ UNCHANGED <<argVars, docVars, multiplier, files_to_process, missing,
                 last_input, select_reads, confirm_reads, attempted, outcomes, applied,
                 exit_code, ending>>

\* lines 210-215
ListFiles ==
  /\ pc = "resolve"
  /\ args_list
  /\ Exit(0, "listed")
  /\ UNCHANGED <<argVars, docVars, multiplier, mainVars>>

\* os.path.exists for the paths the command line names
Exists(path) == path \in entries

\* lines 218-227
ResolveExplicit ==
  /\ pc = "resolve"
  /\ ~args_list
  /\ FilesTruthy
  /\ files_to_process' = SelectSeq(args_files.v, Exists)
  /\ missing' = SelectSeq(args_files.v, LAMBDA f : ~Exists(f))
  /\ pc' = "resolved"
  /\ UNCHANGED <<argVars, docVars, multiplier, matching_files, globbed, warned,
                 last_input, select_reads, confirm_reads, attempted, outcomes, applied,
                 exit_code, ending>>

\* --all taking effect whether or not --files was given
ResolveAll_Regardless ==
  /\ pc = "resolve"
  /\ ~args_list
  /\ args_all
  /\ files_to_process' = matching_files
  /\ pc' = "resolved"
  /\ UNCHANGED <<argVars, docVars, multiplier, matching_files, globbed, warned,
                 missing, last_input, select_reads, confirm_reads, attempted,
                 outcomes, applied, exit_code, ending>>

\* lines 229-231
ResolveAll ==
  /\ pc = "resolve"
  /\ ~args_list
  /\ ~FilesTruthy
  /\ args_all
  /\ files_to_process' = matching_files
  /\ pc' = "resolved"
  /\ UNCHANGED <<argVars, docVars, multiplier, matching_files, globbed, warned,
                 missing, last_input, select_reads, confirm_reads, attempted,
                 outcomes, applied, exit_code, ending>>

\* lines 233-235 and 134-143: interactive_file_selection is entered
StartInteractive ==
  /\ pc = "resolve"
  /\ ~args_list
  /\ ~FilesTruthy
  /\ ~args_all
  /\ pc' = "select"
  /\ UNCHANGED <<argVars, docVars, multiplier, mainVars, exit_code, ending>>

\* lines 145-169: one input() and what the loop body does with it
SelectInput ==
  /\ pc = "select"
  /\ select_reads < MaxReads
  /\ \E line \in SelectLines :
       LET r == SelectionPass(line, matching_files)
       IN  /\ last_input' = line
           /\ select_reads' = select_reads + 1
           /\ IF r.done
                THEN /\ files_to_process' = r.files
                     /\ pc' = "resolved"
                ELSE /\ files_to_process' = files_to_process
                     /\ pc' = "select"
  /\ UNCHANGED <<argVars, docVars, multiplier, matching_files, globbed, warned,
                 missing, confirm_reads, attempted, outcomes, applied, exit_code, ending>>

\* lines 237-239
NoFilesSelected ==
  /\ pc = "resolved"
  /\ files_to_process = <<>>
  /\ Exit(0, "no_files")
  /\ UNCHANGED <<argVars, docVars, multiplier, mainVars>>

\* the condition of line 246 asking also under --all
ConfirmNeeded_IgnoringAll == Len(files_to_process) > 1

\* line 246
ConfirmNeeded == ~args_all /\ Len(files_to_process) > 1

\* lines 241-246 when no confirmation is asked
SkipConfirm ==
  /\ pc = "resolved"
  /\ files_to_process # <<>>
  /\ ~ConfirmNeeded
  /\ pc' = "process"
  /\ UNCHANGED <<argVars, docVars, multiplier, mainVars, exit_code, ending>>

\* lines 246-250
ConfirmInput ==
  /\ pc = "resolved"
  /\ files_to_process # <<>>
  /\ ConfirmNeeded
  /\ \E line \in ConfirmLines :
       /\ last_input' = line
       /\ confirm_reads' = confirm_reads + 1
       /\ IF Lower(Strip(line)) \in {<<"y">>, <<"y", "e", "s">>}
            THEN /\ pc' = "process"
                 /\ UNCHANGED <<exit_code, ending>>
            ELSE Exit(0, "cancelled")
  /\ UNCHANGED <<argVars, docVars, multiplier, matching_files, globbed, warned,
                 files_to_process, missing, select_reads, attempted, outcomes, applied>>

\* the update loop without the try / except of lines 257-261
ProcessFile_Uncaught ==
  /\ pc = "process"
  /\ Len(attempted) < Len(files_to_process)
  /\ LET filename == files_to_process[Len(attempted) + 1]
     IN  /\ attempted' = Append(attempted, filename)
         /\ \/ /\ outcomes' = Append(outcomes, "ok")
               /\ applied' = [applied EXCEPT ![filename] = @ + 1]
               /\ UNCHANGED <<pc, exit_code, ending>>
            \/ /\ outcomes' = Append(outcomes, "raised")
               /\ applied' = applied
               /\ Exit(1, "traceback")
  /\ UNCHANGED <<argVars, docVars, multiplier, matching_files, globbed, warned,
                 files_to_process, missing, last_input, select_reads,
                 confirm_reads>>

\* lines 255-261: one iteration of the update loop.  update_pricing_file
\* either rewrites the file or raises (unreadable or malformed content, a
\* failed write, math.ceil on nan); the exception is caught and the loop
\* continues.
ProcessFile ==
  /\ pc = "process"
  /\ Len(attempted) < Len(files_to_process)
  /\ LET filename == files_to_process[Len(attempted) + 1]
     IN  /\ attempted' = Append(attempted, filename)
         /\ \/ /\ outcomes' = Append(outcomes, "ok")
               /\ applied' = [applied EXCEPT ![filename] = @ + 1]
            \/ /\ outcomes' = Append(outcomes, "raised")
               /\ applied' = applied
  /\ UNCHANGED <<argVars, docVars, multiplier, matching_files, globbed, warned,
                 files_to_process, missing, last_input, select_reads,
                 confirm_reads, pc, exit_code, ending>>

\* lines 263-265
Finish ==
  /\ pc = "process"
  /\ Len(attempted) = Len(files_to_process)
  /\ Exit(0, "completed")
  /\ UNCHANGED <<argVars, docVars, multiplier, mainVars>>

Next ==
  \/ ParsePercent
  \/ Discover
  \/ ListFiles
  \/ ResolveExplicit
  \/ ResolveAll
  \/ StartInteractive
  \/ SelectInput
  \/ NoFilesSelected
  \/ SkipConfirm
  \/ ConfirmInput
  \/ ProcessFile
  \/ Finish

Spec == Init /\ [][Next]_vars

(***************************************************************************)
(* Properties of the script.                                               *)
(***************************************************************************)
Touched ==
  globbed \/ attempted # <<>> \/ \E p \in Paths : applied[p] > 0

\* C1: no file is discovered, opened or written unless parse_percentage has
\* returned a multiplier; when the --percent expression does not parse, the
\* run ends with exit code 1 with nothing discovered or touched, whatever
\* the other options are.
C1_ParseFailureIsFatal ==
  /\ Touched => multiplier.set
  /\ ~parse_percentage(percent).ok =>
       /\ ~Touched
       /\ select_reads = 0 /\ confirm_reads = 0
       /\ pc \in {"parse", "done"}
       /\ pc = "done" => exit_code = 1

C1_Witness ==
  /\ pc = "done"
  /\ exit_code = 1
  /\ ~parse_percentage(percent).ok
  /\ FilesTruthy /\ args_all /\ args_list /\ args_keywords.given
  /\ args_files.v[1] \in entries

\* C2: an update that raises never stops the batch: the files are attempted
\* in list order, every file after a failing one is still attempted, and the
\* run then ends with exit code 0.
C2_FailuresDoNotStopBatch ==
  /\ pc = "process" =>
       /\ Len(attempted) <= Len(files_to_process)
       /\ attempted = SubSeq(files_to_process, 1, Len(attempted))
  /\ (pc = "done" /\ outcomes # <<>>) =>
       /\ attempted = files_to_process
       /\ Len(outcomes) = Len(attempted)
       /\ exit_code = 0

C2_Witness ==
  /\ pc = "done"
  /\ Len(files_to_process) >= 2
  /\ Len(outcomes) >= 2
  /\ outcomes[1] = "raised"
  /\ outcomes[2] = "ok"
  /\ attempted = files_to_process

\* the supplied paths that exist, in the order given
RECURSIVE ExistingInOrder(_)
ExistingInOrder(paths) ==
  IF paths = <<>> THEN <<>>
  ELSE IF Head(paths) \in entries
    THEN <<Head(paths)>> \o ExistingInOrder(Tail(paths))
  ELSE ExistingInOrder(Tail(paths))

Range(q) == {q[i] : i \in 1..Len(q)}

\* what an input line selects according to the description of the
\* interactive mode: ok with the files, or not ok (prompt again)
ClaimedSelection(line, candidates) ==
  LET sel    == Lower(Strip(line))
      tokens == Split(sel, ",")
      ints   == [i \in 1..Len(tokens) |-> PyInt(tokens[i])]
      valid  == \A i \in 1..Len(tokens) :
                  ints[i].ok /\ ints[i].val \in 1..Len(candidates)
  IN  IF sel = WordAll THEN [ok |-> TRUE, files |-> candidates]
      ELSE IF sel \in QuitWords THEN [ok |-> TRUE, files |-> <<>>]
      ELSE IF valid
        THEN [ok |-> TRUE,
              files |-> [i \in 1..Len(tokens) |-> candidates[ints[i].val]]]
      ELSE [ok |-> FALSE, files |-> <<>>]

Resolved == pc \in {"resolved", "process"}
            \/ (pc = "done" /\ ending \in {"no_files", "cancelled", "completed"})

\* C7: the targets come from exactly one mode, in the priority order explicit
\* list, --all, interactive.  With a (non-empty) explicit list they are the
\* supplied paths that exist, in the order given, every missing path is
\* reported and the run goes on, regardless of --all and --keywords, and
\* nothing is discovered or asked; otherwise with --all they are the
\* discovered files; otherwise they are what the interactive selection
\* returned.
C7_ResolutionPriority ==
  Resolved =>
    IF args_files.given /\ args_files.v # <<>>
      THEN /\ files_to_process = ExistingInOrder(args_files.v)
           /\ Range(missing) = Range(args_files.v) \ entries
           /\ ~globbed
           /\ select_reads = 0
    ELSE IF args_all
      THEN /\ files_to_process = matching_files
           /\ Range(matching_files) =
                {f \in GlobJson(entries) :
                   ~args_keywords.given
                   \/ \E i \in 1..Len(args_keywords.v) :
                        IsSubstring(args_keywords.v[i], f)}
           /\ select_reads = 0
           /\ missing = <<>>
    ELSE /\ select_reads > 0
         /\ Range(files_to_process) \subseteq Range(matching_files)
         /\ confirm_reads = 0 =>
              /\ ClaimedSelection(last_input, matching_files).ok
              /\ files_to_process = ClaimedSelection(last_input, matching_files).files
         /\ missing = <<>>

C7_Witness ==
  /\ pc = "process"
  /\ FilesTruthy /\ args_all /\ args_keywords.given
  /\ missing # <<>>
  /\ Len(files_to_process) = 1
  /\ GlobJson(entries) \ Range(files_to_process) # {}

StrictlyAscending(q) == \A i \in 1..(Len(q) - 1) : StrLess(q[i], q[i + 1])

\* C8: discovery returns a JSON file iff some supplied keyword is a substring
\* of its name; with no keywords supplied (--keywords omitted, or given with
\* zero values) it returns every JSON file and emits the safety warning; the
\* names are in lexicographic order without repetition.
C8_Discovery ==
  globbed =>
    LET noKeywords == ~args_keywords.given \/ args_keywords.v = <<>>
    IN  /\ noKeywords =>
             /\ Range(matching_files) = GlobJson(entries)
             /\ warned
        /\ ~noKeywords =>
             Range(matching_files) =
               {f \in GlobJson(entries) :
                  \E i \in 1..Len(args_keywords.v) :
                    IsSubstring(args_keywords.v[i], f)}
        /\ StrictlyAscending(matching_files)

IsYes(line) == Lower(Strip(line)) \in {<<"y">>, <<"y", "e", "s">>}

\* C9 as stated: input is read only by the interactive selection; none is
\* read with an explicit file list or with --all; once the targets are
\* resolved to a non-empty list every one of them is processed with no
\* further input and no chance to cancel.
C9_OnlySelectionReadsInput ==
  /\ confirm_reads = 0
  /\ (FilesTruthy \/ args_all) => select_reads = 0
  /\ ending # "cancelled"
  /\ (pc = "done" /\ ending \notin {"bad_percent", "listed", "no_files"}) =>
       attempted = files_to_process

C9_Reads ==
  /\ args_all => (select_reads = 0 /\ confirm_reads = 0)
  /\ FilesTruthy => select_reads = 0
  /\ confirm_reads <= 1
  /\ confirm_reads = 1 => (~args_all /\ Len(files_to_process) > 1)
  /\ (pc = "process" \/ ending \in {"completed", "cancelled"}) =>
       confirm_reads = (IF ~args_all /\ Len(files_to_process) > 1 THEN 1 ELSE 0)
  /\ ending = "cancelled" =>
       /\ ~IsYes(last_input)
       /\ attempted = <<>>
       /\ exit_code = 0
  /\ pc = "process" => (confirm_reads = 1 => IsYes(last_input))
  /\ ending = "completed" => attempted = files_to_process

\* C9 amended: besides the interactive selection, input is read once more,
\* by a y/N confirmation, exactly when --all is absent and more than one
\* target was resolved.  With --all nothing is read; with an explicit list
\* the selection prompt is never shown.  An answer other than y / yes ends
\* the run with exit code 0 before any file is attempted; otherwise, and
\* whenever no confirmation is due, every target is processed with no
\* further input.
C9_ConfirmationIsTheOnlyOtherRead ==
  /\ []C9_Reads
  /\ [][pc = "process" =>
          /\ select_reads' = select_reads
          /\ confirm_reads' = confirm_reads
          /\ files_to_process' = files_to_process
          /\ pc' = "process" \/ (pc' = "done" /\ ending' = "completed")
       ]_vars

C9_Witness ==
  /\ ending = "cancelled"
  /\ FilesTruthy
  /\ Len(files_to_process) = 2

NoRepeats(q) == \A i, j \in 1..Len(q) : q[i] = q[j] => i = j

\* C10: no file is updated twice in one run: the list handed to the update
\* loop contains no path twice, so no file has the multiplier applied more
\* than once.
C10_NoFileTwice ==
  /\ (pc = "process" \/ ending = "completed") => NoRepeats(files_to_process)
  /\ \A p \in Paths : applied[p] <= 1

(***************************************************************************)
(* parse_percentage alone, on every string over a small alphabet.          *)
(***************************************************************************)
ParseInit ==
  /\ percent \in PercentStrings
  /\ args_files = None
  /\ args_all = FALSE
  /\ args_list = FALSE
  /\ args_keywords = None
  /\ entries = {}
  /\ MainInit

ParseNext == ParsePercent

SpecParse == ParseInit /\ [][ParseNext]_vars

\* a number as the C4 statement describes it: an optional sign, digits and
\* an optional fractional part
IsSignedDecimal(x) ==
  LET body  == IF x # <<>> /\ x[1] \in {"-", "+"} THEN Tail(x) ELSE x
      parts == Split(body, ".")
  IN  /\ Len(parts) \in {1, 2}
      /\ \A i \in 1..Len(parts) :
           /\ parts[i] # <<>>
           /\ \A j \in 1..Len(parts[i]) : parts[i][j] \in Digits

\* C4: after trimming, an optional sign, digits and an optional fractional
\* part, optionally followed by exactly one trailing '%', yields
\* 1 + value / 100; a string with more than one '%', with a '%' that is not
\* the last character, or whose remaining text is not a decimal number
\* (read as widely as float() reads decimal literals) fails and yields no
\* multiplier.
C4_ParseContract ==
  pc # "parse" =>
    LET t         == Strip(percent)
        rest      == IF EndsWith(t, "%") THEN SubSeq(t, 1, Len(t) - 1) ELSE t
        dec       == PyDecimal(rest)
        value     == FRatio(dec.s, BFromInt(dec.n), Pow10(dec.d), 0)
        misplaced == \E i \in 1..(Len(t) - 1) : t[i] = "%"
    IN  /\ IsSignedDecimal(rest) =>
             /\ multiplier.set
             /\ multiplier.val = FAdd(FFromInt(1), FDivSmall(value, 100))
        /\ (Count(t, "%") > 1 \/ misplaced \/ ~dec.ok) =>
             /\ ~multiplier.set
             /\ pc = "done" /\ exit_code = 1

(***************************************************************************)
(* update_pricing_file alone, on sample documents.                         *)
(***************************************************************************)
RowSamples ==
  { [size |-> LitStr(1), small |-> LitFloat(1000, 2), large |-> LitFloat(2000, 2),
     other |-> LitInt(5)],
    [size |-> LitStr(2), small |-> LitInt(10), large |-> LitStr(9)],
    [size |-> LitStr(3), small |-> LitBool(TRUE), large |-> LitNull,
     other |-> LitNested(1)],
    [size |-> LitStr(4), small |-> LitFloat(7, 2)],
    [small |-> LitFloat(9995, 3), large |-> LitFloat(10001, 3)],
    [size |-> LitStr(6), small |-> LitFloat(50, 2), large |-> LitFloat(1999, 2)] }

PricableSamples ==
  {None, Given(<<>>), Given(<<"small">>), Given(<<"small", "large">>),
   Given(<<"large", "small">>), Given(<<"other">>)}

Docs ==
  {[has_pricable |-> p.given, pricable |-> p.v, has_rows |-> TRUE,
    rows |-> rows, title |-> LitStr(0)] :
     p \in PricableSamples, rows \in SeqsUpTo(RowSamples, MaxRows)}
  \cup {[has_pricable |-> TRUE, pricable |-> <<"small">>, has_rows |-> FALSE,
         rows |-> <<>>, title |-> LitStr(0)]}

UpdatePercents ==
  {<<"6">>, <<"0">>, <<"-", "1", "0">>, <<"-", "1", ".", "5", "%">>,
   <<"1", "0">>, <<"n", "a", "n">>}

\* a pricing file and a --percent expression; the script parses the
\* expression and hands the file to update_pricing_file with the multiplier
UpdateInit ==
  /\ percent \in UpdatePercents
  /\ multiplier = Unset
  /\ file \in Docs
  /\ data = EmptyDoc
  /\ row_i = 0
  /\ tier_i = 0
  /\ fstatus = "unread"
  /\ pc = "parse"
  /\ args_files = None
  /\ args_all = FALSE
  /\ args_list = FALSE
  /\ args_keywords = None
  /\ entries = {}
  /\ matching_files = <<>>
  /\ globbed = FALSE
  /\ warned = FALSE
  /\ files_to_process = <<>>
  /\ missing = <<>>
  /\ last_input = <<>>
  /\ select_reads = 0
  /\ confirm_reads = 0
  /\ attempted = <<>>
  /\ outcomes = <<>>
  /\ applied = [p \in Paths |-> 0]
  /\ exit_code = -1
  /\ ending = "running"

updateFrame == <<argVars, multiplier, mainVars, pc, exit_code, ending, file>>

\* line 88: data.get('pricable', [])
PricableTiers == IF data.has_pricable THEN data.pricable ELSE <<>>

\* lines 83-90: json.load, and the loops are entered
LoadFile ==
  /\ multiplier.set
  /\ fstatus = "unread"
  /\ data' = JsonLoad(file)
  /\ row_i' = 1
  /\ tier_i' = 1
  /\ fstatus' = "updating"
  /\ UNCHANGED updateFrame

\* lines 97-105: one pass of the inner loop; math.ceil raising leaves
\* update_pricing_file before the file is opened for writing
UpdateTier ==
  /\ fstatus = "updating"
  /\ data.has_rows
  /\ row_i <= Len(data.rows)
  /\ tier_i <= Len(PricableTiers)
  /\ LET row  == data.rows[row_i]
         tier == PricableTiers[tier_i]
     IN  IF tier \in DOMAIN row /\ IsNumber(row[tier])
           THEN LET adj == AdjustPrice(row[tier], multiplier.val)
                IN  IF adj.ok
                      THEN /\ data' = [data EXCEPT
                                         !.rows[row_i][tier] = PyFloatValue(adj.val)]
                           /\ tier_i' = tier_i + 1
                           /\ fstatus' = fstatus
                      ELSE /\ fstatus' = "failed"
                           /\ UNCHANGED <<data, tier_i>>
           ELSE /\ tier_i' = tier_i + 1
                /\ UNCHANGED <<data, fstatus>>
  /\ UNCHANGED <<updateFrame, row_i>>

\* line 94: the inner loop is exhausted, on to the next row
NextRow ==
  /\ fstatus = "updating"
  /\ data.has_rows
  /\ row_i <= Len(data.rows)
  /\ tier_i > Len(PricableTiers)
  /\ row_i' = row_i + 1
  /\ tier_i' = 1
  /\ UNCHANGED <<updateFrame, data, fstatus>>

\* lines 107-111: json.dump of the updated data over the file
WriteBack ==
  /\ fstatus = "updating"
  /\ ~data.has_rows \/ row_i > Len(data.rows)
  /\ fstatus' = "written"
  /\ UNCHANGED <<updateFrame, data, row_i, tier_i>>

UpdateNext ==
  \/ ParsePercent
  \/ LoadFile
  \/ UpdateTier
  \/ NextRow
  \/ WriteBack

SpecUpdate == UpdateInit /\ [][UpdateNext]_vars

\* the percentage as the exact decimal the command line states
PercentDecimal ==
  LET t == Strip(percent)
  IN  PyDecimal(IF EndsWith(t, "%") THEN SubSeq(t, 1, Len(t) - 1) ELSE t)

\* ceiling of a / b for b > 0
CeilDiv(a, b) == IF a >= 0 THEN (a + b - 1) \div b ELSE 0 - ((0 - a) \div b)

\* the smallest whole number of cents that is at least
\* value * (1 + percent / 100), for the value a literal states
ExactCents(lit) ==
  LET p    == PercentDecimal
      hund == 100 * Pow10(p.d)
      num  == lit.n * (IF p.s = 1 THEN hund - p.n ELSE hund + p.n) * 100
  IN  CeilDiv(num, Pow10(lit.d) * hund)

\* the float a whole number of cents is stored as
CentsAsFloat(c) ==
  PyFloatValue(FRatio(IF c < 0 THEN 1 ELSE 0,
                      BFromInt(IF c < 0 THEN 0 - c ELSE c), 100, 0))

\* C3: every adjusted price is the smallest whole-cent amount that is not
\* below value * multiplier; in particular a product that is already a whole
\* number of cents is returned as it is, not a cent higher.
C3_CeilingToCent ==
  (fstatus = "written" /\ file.has_pricable /\ PercentDecimal.ok) =>
    \A r \in 1..Len(file.rows) : \A i \in 1..Len(file.pricable) :
      LET tier == file.pricable[i]
      IN  (tier \in DOMAIN file.rows[r] /\ file.rows[r][tier].t \in {"int", "float"})
            => data.rows[r][tier] = CentsAsFloat(ExactCents(file.rows[r][tier]))

\* C5: a row field changes iff its name is pricable and its value is an
\* integer or floating-point number; fields that are not pricable, and
\* pricable fields holding a string, boolean, null or nested value, keep
\* their value, as do the set of fields of each row, the pricable list, the
\* order and number of rows and every other top-level field.
C5_OnlyPricableNumbersChange ==
  fstatus = "written" =>
    LET orig  == JsonLoad(file)
        tiers == IF file.has_pricable THEN Range(file.pricable) ELSE {}
    IN  /\ data.has_pricable = orig.has_pricable
        /\ data.pricable = orig.pricable
        /\ data.has_rows = orig.has_rows
        /\ data.title = orig.title
        /\ Len(data.rows) = Len(orig.rows)
        /\ \A r \in 1..Len(orig.rows) :
             /\ DOMAIN data.rows[r] = DOMAIN orig.rows[r]
             /\ \A k \in DOMAIN orig.rows[r] :
                  IF k \in tiers
                     /\ orig.rows[r][k].t \in {"int", "float"}
                    THEN data.rows[r][k] =
                           PyFloatValue(AdjustPrice(orig.rows[r][k], multiplier.val).val)
                    ELSE data.rows[r][k] = orig.rows[r][k]

\* C6: from AwaitingInput, an input with any index outside 1..n or any
\* non-integer token selects nothing and prompts again (never a partial
\* selection); the loop returns only on 'all' (every candidate), on
\* none / quit / exit (nothing), or on indices all in range (exactly the
\* candidates at those indices); once it has returned it is not re-entered.
C6_SelectionStateMachine ==
  [][ /\ pc = "select" =>
           LET c == ClaimedSelection(last_input', matching_files)
           IN  IF c.ok
                 THEN pc' = "resolved" /\ files_to_process' = c.files
                 ELSE /\ pc' = "select"
                      /\ files_to_process' = <<>>
                      /\ select_reads' = select_reads + 1
      /\ pc' = "select" => pc \in {"resolve", "select"}
    ]_vars

C6_Witness ==
  /\ pc = "select"
  /\ select_reads >= 1
  /\ last_input = <<"1", ",", "2">>
  /\ Len(matching_files) = 1
  /\ files_to_process = <<>>

====
